---- MODULE Spec2Model ----
(***************************************************************************)
(* Model of results_creator.py: the StredoLiga season table builder.       *)
(*                                                                         *)
(* Text is modelled as a sequence of characters; a character is a          *)
(* one-letter string, or a name for a character outside ASCII:             *)
(*   "NBSP" U+00A0, "ENDASH" U+2013, "EMDASH" U+2014, "TAB" U+0009,        *)
(*   "CARON" U+030C (combining), and "x_caron" / "X_CARON" for the letter  *)
(*   x or X with caron in one character ("z_caron" U+017E, "Z_CARON"       *)
(*   U+017D, "s_caron" U+0161, ...).                                       *)
(* An optional value is a tuple of at most one element: None is <<>>.      *)
(* A class name or status that findtext does not find is the empty text,   *)
(* which every use in the program treats as it treats None.                *)
(***************************************************************************)
EXTENDS Integers, Sequences, FiniteSets, TLC

VARIABLES
    pc,         \* position of the run
    raw,        \* a class label handed to normalize_class_name
    name1,      \* its normal form
    name2,      \* the normal form of name1
    dir,        \* the documents of XML_DIR, in the order of their file names
    xml_files,  \* the paths found, as indices into dir
    events,     \* the events parsed so far; after the sort, the sorted list
    acc,        \* per category, cells_by_comp and totals_by_comp after its loops
    final_df,   \* the combined frame
    written     \* StredoLigaResults.csv has been written

vars == <<pc, raw, name1, name2, dir, xml_files, events, acc, final_df, written>>

(***************************************************************************)
(* Bounds of the model.                                                    *)
(***************************************************************************)
MaxPieces == 3
MaxPosLen == 3
MaxEvents == 2
MaxRecords == 3

(***************************************************************************)
(* Characters and the str methods the program uses.                        *)
(***************************************************************************)
UpperLetters ==
    <<"A","B","C","D","E","F","G","H","I","J","K","L","M",
      "N","O","P","Q","R","S","T","U","V","W","X","Y","Z">>

LowerLetters ==
    <<"a","b","c","d","e","f","g","h","i","j","k","l","m",
      "n","o","p","q","r","s","t","u","v","w","x","y","z">>

AsciiLower == {LowerLetters[i] : i \in 1..26}

Digits == <<"0","1","2","3","4","5","6","7","8","9">>

DigitChars == {Digits[i] : i \in 1..10}

\* str.isspace() of one character
IsSpace(c) == c \in {" ", "TAB", "NBSP"}

\* the characters of the class [\u00A0\u2013\u2014\-]
IsDashLike(c) == c \in {"NBSP", "ENDASH", "EMDASH", "-"}

\* the lower-case letters that have a form with caron in one character, and
\* those forms
CaronLower == <<"a","c","d","e","g","h","i","j","k","l","n","o","r","s","t","u","z">>

CaronLowerForm == <<"a_caron","c_caron","d_caron","e_caron","g_caron","h_caron","i_caron","j_caron","k_caron","l_caron","n_caron","o_caron","r_caron","s_caron","t_caron","u_caron","z_caron">>

\* the same for the upper-case letters (J has no such form)
CaronUpper == <<"A","C","D","E","G","H","I","K","L","N","O","R","S","T","U","Z">>

CaronUpperForm == <<"A_CARON","C_CARON","D_CARON","E_CARON","G_CARON","H_CARON","I_CARON","K_CARON","L_CARON","N_CARON","O_CARON","R_CARON","S_CARON","T_CARON","U_CARON","Z_CARON">>

IndexIn(seq, c) == CHOOSE i \in 1..Len(seq) : seq[i] = c

Among(seq, c) == \E i \in 1..Len(seq) : seq[i] = c

\* str.lower() of one character
LowerChar(c) ==
    IF Among(UpperLetters, c) THEN LowerLetters[IndexIn(UpperLetters, c)]
    ELSE IF Among(CaronUpperForm, c)
      THEN CaronLowerForm[IndexIn(CaronLower, LowerLetters[IndexIn(UpperLetters,
                                    CaronUpper[IndexIn(CaronUpperForm, c)])])]
      ELSE c

\* str.upper() / title case of one character: j with caron has no upper case
\* in one character and becomes J followed by the combining caron
UpperChar(c) ==
    IF Among(LowerLetters, c) THEN <<UpperLetters[IndexIn(LowerLetters, c)]>>
    ELSE IF Among(CaronLowerForm, c)
      THEN LET base == UpperLetters[IndexIn(LowerLetters,
                                            CaronLower[IndexIn(CaronLowerForm, c)])]
           IN  IF Among(CaronUpper, base)
                 THEN <<CaronUpperForm[IndexIn(CaronUpper, base)]>>
                 ELSE <<base, "CARON">>
      ELSE <<c>>

\* str.lower()
Lower(s) == [i \in 1..Len(s) |-> LowerChar(s[i])]

RECURSIVE LStrip(_)
LStrip(s) == IF s # <<>> /\ IsSpace(Head(s)) THEN LStrip(Tail(s)) ELSE s

RECURSIVE RStrip(_)
RStrip(s) ==
    IF s # <<>> /\ IsSpace(s[Len(s)]) THEN RStrip(SubSeq(s, 1, Len(s) - 1)) ELSE s

\* str.strip()
Strip(s) == RStrip(LStrip(s))

\* str.capitalize(): first character upper-cased, the rest lower-cased
Capitalize(s) ==
    IF s = <<>> THEN <<>> ELSE UpperChar(Head(s)) \o Lower(Tail(s))

\* s.startswith(p)
StartsWith(s, p) == Len(s) >= Len(p) /\ SubSeq(s, 1, Len(p)) = p

\* str.replace(old, new), leftmost non-overlapping occurrences, old non-empty
RECURSIVE Replace(_, _, _)
Replace(s, old, new) ==
    IF s = <<>> THEN <<>>
    ELSE IF StartsWith(s, old)
      THEN new \o Replace(SubSeq(s, Len(old) + 1, Len(s)), old, new)
      ELSE <<Head(s)>> \o Replace(Tail(s), old, new)

(***************************************************************************)
(* normalize_class_name                                                    *)
(***************************************************************************)
\* re.sub(r"[\u00A0\u2013\u2014\-]+", " - ", name): every maximal run of
\* dash-like characters becomes space, hyphen, space
RECURSIVE UnifyDashes(_)
UnifyDashes(s) ==
    IF s = <<>> THEN <<>>
    ELSE IF IsDashLike(Head(s))
      THEN IF Len(s) >= 2 /\ IsDashLike(s[2])
             THEN UnifyDashes(Tail(s))
             ELSE <<" ", "-", " ">> \o UnifyDashes(Tail(s))
      ELSE <<Head(s)>> \o UnifyDashes(Tail(s))

\* re.sub(r"\s+", " ", name): every maximal run of whitespace becomes one space
RECURSIVE CollapseSpaces(_)
CollapseSpaces(s) ==
    IF s = <<>> THEN <<>>
    ELSE IF IsSpace(Head(s))
      THEN IF Len(s) >= 2 /\ IsSpace(s[2])
             THEN CollapseSpaces(Tail(s))
             ELSE <<" ">> \o CollapseSpaces(Tail(s))
      ELSE <<Head(s)>> \o CollapseSpaces(Tail(s))

\* re.sub(r" [a-z]$", "", name): a final space + ASCII lower-case letter goes
ChopSuffix(s) ==
    IF Len(s) >= 2 /\ s[Len(s) - 1] = " " /\ s[Len(s)] \in AsciiLower
      THEN SubSeq(s, 1, Len(s) - 2)
      ELSE s

\* unicodedata.normalize("NFKD", name) on the characters of the model: a
\* letter with caron becomes the letter and the combining caron, the
\* no-break space a space
RECURSIVE NFKD(_)
NFKD(s) ==
    IF s = <<>> THEN <<>>
    ELSE (IF Among(CaronLowerForm, Head(s))
            THEN <<CaronLower[IndexIn(CaronLowerForm, Head(s))], "CARON">>
          ELSE IF Among(CaronUpperForm, Head(s))
            THEN <<CaronUpper[IndexIn(CaronUpperForm, Head(s))], "CARON">>
          ELSE IF Head(s) = "NBSP" THEN <<" ">>
          ELSE <<Head(s)>>) \o NFKD(Tail(s))

\* unicodedata.normalize("NFC", name) on the characters of the model: a
\* letter and the combining caron right behind it become the letter with
\* caron where that character exists; a second caron stays
RECURSIVE NFC(_)
NFC(s) ==
    IF s = <<>> THEN <<>>
    ELSE IF Len(s) >= 2 /\ s[2] = "CARON" /\ Among(CaronLower, Head(s))
      THEN <<CaronLowerForm[IndexIn(CaronLower, Head(s))]>> \o NFC(SubSeq(s, 3, Len(s)))
    ELSE IF Len(s) >= 2 /\ s[2] = "CARON" /\ Among(CaronUpper, Head(s))
      THEN <<CaronUpperForm[IndexIn(CaronUpper, Head(s))]>> \o NFC(SubSeq(s, 3, Len(s)))
    ELSE <<Head(s)>> \o NFC(Tail(s))

normalize_class_name(r) ==
    IF r = <<>> THEN <<>>
    ELSE LET n1 == Strip(Lower(r))
             n2 == UnifyDashes(n1)
             n3 == CollapseSpaces(n2)
             n4 == ChopSuffix(n3)
             n5 == NFKD(n4)
             n6 == Replace(Replace(n5, <<"m","u","z","i">>, <<"m","u","z_caron","i">>),
                           <<"z","e","n","y">>, <<"z_caron","e","n","y">>)
             n7 == NFC(n6)
         IN  Capitalize(n7)

(***************************************************************************)
(* Optional values: None is the empty tuple, a present value v is <<v>>.   *)
(***************************************************************************)
None == <<>>

Some(v) == <<v>>

(***************************************************************************)
(* int(), str(), str.isdigit() on the characters of the model              *)
(***************************************************************************)
DigitVal(c) == (CHOOSE i \in 1..10 : Digits[i] = c) - 1

\* digits with single underscores between them, as int() accepts
RECURSIVE IsDigitGroup(_)
IsDigitGroup(s) ==
    /\ s # <<>>
    /\ Head(s) \in DigitChars
    /\ \/ Len(s) = 1
       \/ IsDigitGroup(Tail(s))
       \/ Len(s) >= 3 /\ s[2] = "_" /\ IsDigitGroup(SubSeq(s, 3, Len(s)))

RECURSIVE DigitsValue(_, _)
DigitsValue(s, n) ==
    IF s = <<>> THEN n
    ELSE IF Head(s) = "_" THEN DigitsValue(Tail(s), n)
    ELSE DigitsValue(Tail(s), 10 * n + DigitVal(Head(s)))

\* int(text): [ok |-> FALSE] stands for ValueError
IntParse(text) ==
    LET t == Strip(text)
        signed == t # <<>> /\ Head(t) \in {"+", "-"}
        body == IF signed THEN Tail(t) ELSE t
    IN  IF IsDigitGroup(body)
          THEN [ok |-> TRUE,
                val |-> IF signed /\ Head(t) = "-"
                          THEN 0 - DigitsValue(body, 0)
                          ELSE DigitsValue(body, 0)]
          ELSE [ok |-> FALSE, val |-> 0]

\* str(n) for n >= 0
RECURSIVE Str(_)
Str(n) == IF n < 10 THEN <<Digits[n + 1]>> ELSE Str(n \div 10) \o <<Digits[(n % 10) + 1]>>

\* str.isdigit()
IsDigit(s) == s # <<>> /\ \A i \in 1..Len(s) : s[i] \in DigitChars

\* int(display) of a digit string
IntOf(s) == DigitsValue(s, 0)

(***************************************************************************)
(* CONFIG and helpers                                                      *)
(***************************************************************************)
\* mutant of POINTS: range(1, 20), the 20th place left out
POINTS_Upto19 == [i \in 1..19 |-> 21 - i]

POINTS == [i \in 1..20 |-> 21 - i]

\* POINTS.get(position, 0)
PointsGet(position) == IF position \in DOMAIN POINTS THEN POINTS[position] ELSE 0

DNS == <<"D","N","S">>

DNF == <<"D","N","F">>

DISQ == <<"D","I","S","Q">>

\* mutant of map_status: the raw status compared without lower()
map_status_CaseSensitive(r) ==
    IF r = <<"d","i","d","n","o","t","s","t","a","r","t">> THEN Some(DNS)
    ELSE IF r = <<"d","i","d","n","o","t","f","i","n","i","s","h">> THEN Some(DNF)
    ELSE IF r # <<>> /\ r # <<"o","k">> THEN Some(DISQ)
    ELSE None

map_status(r) ==
    LET raw_lc == Lower(r)
    IN  IF raw_lc = <<"d","i","d","n","o","t","s","t","a","r","t">> THEN Some(DNS)
        ELSE IF raw_lc = <<"d","i","d","n","o","t","f","i","n","i","s","h">> THEN Some(DNF)
        ELSE IF raw_lc # <<>> /\ raw_lc # <<"o","k">> THEN Some(DISQ)
        ELSE None

(***************************************************************************)
(* parse_event.  A document is                                             *)
(*   [name, date, results], date the text of Event/StartTime/Date or None, *)
(*   results the PersonResult elements in document order, each             *)
(*   [class_raw, person_key, pos_text, status_raw] with class_raw the Name *)
(*   of the enclosing ClassResult and person_key the (given, family, SVK   *)
(*   id) triple read from its Person element.                              *)
(***************************************************************************)
\* the record appended for one PersonResult
ParseRecord(pr) ==
    LET parsed == IntParse(pr.pos_text)
    IN  [class_name |-> normalize_class_name(pr.class_raw),
         person_key |-> pr.person_key,
         position   |-> IF parsed.ok THEN Some(parsed.val) ELSE None,
         points     |-> IF parsed.ok THEN PointsGet(parsed.val) ELSE 0,
         status_raw |-> pr.status_raw]

(***************************************************************************)
(* datetime.fromisoformat, as the interpreter's datetime module does it:   *)
(* the text is read as a string that ends with "NUL", by 0-based index.    *)
(***************************************************************************)
\* the character at 0-based index i, "NUL" behind the end of the text
At(s, i) == IF i >= 0 /\ i < Len(s) THEN s[i + 1] ELSE "NUL"

\* the characters of the model that take more than one byte
NonAscii ==
    {"NBSP", "ENDASH", "EMDASH", "CARON"}
    \cup {CaronLowerForm[i] : i \in 1..Len(CaronLowerForm)}
    \cup {CaronUpperForm[i] : i \in 1..Len(CaronUpperForm)}

\* n decimal digits from index p on, added to var
RECURSIVE ParseDigits(_, _, _, _)
ParseDigits(s, p, n, var) ==
    IF n = 0 THEN [ok |-> TRUE, val |-> var]
    ELSE IF At(s, p) \in DigitChars
      THEN ParseDigits(s, p + 1, n - 1, var * 10 + DigitVal(At(s, p)))
      ELSE [ok |-> FALSE, val |-> 0]

\* the index of the first character from idx on that is not a digit
RECURSIVE SkipDigits(_, _)
SkipDigits(s, idx) ==
    IF At(s, idx) \in DigitChars THEN SkipDigits(s, idx + 1) ELSE idx

\* the index of the character between the date and the time: 7, 8 or 10
\* for YYYYWww, YYYYMMDD / YYYYWwwD / YYYY-Www and YYYY-MM-DD / YYYY-Www-D;
\* -1 for a text that is none of them
FindSeparator(s) ==
    LET n == Len(s)
    IN  IF n = 7 THEN 7
        ELSE IF At(s, 4) = "-"
          THEN (IF At(s, 5) = "W"
                  THEN (IF n > 8 /\ At(s, 8) = "-"
                          THEN (IF n = 9 THEN -1
                                ELSE IF n > 10 /\ At(s, 10) \in DigitChars
                                  THEN 8 ELSE 10)
                          ELSE 8)
                  ELSE 10)
        ELSE IF At(s, 4) = "W"
          THEN (LET idx == SkipDigits(s, 7)
                IN  IF idx < 9 THEN idx ELSE IF idx % 2 = 0 THEN 7 ELSE 8)
          ELSE 8

IsLeap(y) == y % 4 = 0 /\ (y % 100 # 0 \/ y % 400 = 0)

DaysIn(y, m) ==
    IF m \in {4, 6, 9, 11} THEN 30
    ELSE IF m = 2 THEN (IF IsLeap(y) THEN 29 ELSE 28)
    ELSE 31

\* the days of year y before the first of month m
RECURSIVE DaysBeforeMonth(_, _)
DaysBeforeMonth(y, m) ==
    IF m <= 1 THEN 0 ELSE DaysBeforeMonth(y, m - 1) + DaysIn(y, m - 1)

\* the days before January 1st of year y
DaysBeforeYear(y) ==
    (y - 1) * 365 + ((y - 1) \div 4) - ((y - 1) \div 100) + ((y - 1) \div 400)

\* the ordinal of a day, 0001-01-01 being day 1
YmdToOrd(y, m, d) == DaysBeforeYear(y) + DaysBeforeMonth(y, m) + d

\* the day of an ordinal
OrdToYmd(ordinal) ==
    LET o    == ordinal - 1
        n400 == o \div 146097
        r400 == o % 146097
        n100 == r400 \div 36524
        r100 == r400 % 36524
        n4   == r100 \div 1461
        r4   == r100 % 1461
        n1   == r4 \div 365
        y    == n400 * 400 + n100 * 100 + n4 * 4 + n1 + 1
    IN  IF n1 = 4 \/ n100 = 4 THEN <<y - 1, 12, 31>>
        ELSE LET n == ordinal - DaysBeforeYear(y)
                 m == CHOOSE k \in 1..12 :
                        DaysBeforeMonth(y, k) < n
                        /\ n <= DaysBeforeMonth(y, k) + DaysIn(y, k)
             IN  <<y, m, n - DaysBeforeMonth(y, m)>>

\* the ordinal of the Monday of ISO week 1 of year y
IsoWeek1Monday(y) ==
    LET first_day     == YmdToOrd(y, 1, 1)
        first_weekday == (first_day + 6) % 7
    IN  IF first_weekday > 3 THEN first_day - first_weekday + 7
        ELSE first_day - first_weekday

\* the day of an ISO year, week and weekday; week 53 only in a year that has it
IsoToYmd(y, w, d) ==
    LET first_weekday == (YmdToOrd(y, 1, 1) + 6) % 7
        has53 == first_weekday = 3 \/ (first_weekday = 2 /\ IsLeap(y))
    IN  IF y < 1 \/ y > 9999 THEN [ok |-> FALSE, val |-> <<0, 0, 0>>]
        ELSE IF ~(w \in 1..52 \/ (w = 53 /\ has53)) THEN [ok |-> FALSE, val |-> <<0, 0, 0>>]
        ELSE IF ~(d \in 1..7) THEN [ok |-> FALSE, val |-> <<0, 0, 0>>]
        ELSE [ok |-> TRUE,
              val |-> OrdToYmd(IsoWeek1Monday(y) + (w - 1) * 7 + d - 1)]

\* year, month and day of the first n characters: YYYY-MM-DD or YYYYMMDD,
\* or an ISO week date YYYY-Www[-D] or YYYYWww[D]
ParseIsoformatDate(s, n) ==
    LET bad   == [ok |-> FALSE, val |-> <<0, 0, 0>>]
        year  == ParseDigits(s, 0, 4, 0)
        sep   == At(s, 4) = "-"
        p     == IF sep THEN 5 ELSE 4
        week  == ParseDigits(s, p + 1, 2, 0)
        dpos  == IF sep THEN p + 4 ELSE p + 3
        wday  == ParseDigits(s, dpos, 1, 0)
        month == ParseDigits(s, p, 2, 0)
        mday  == ParseDigits(s, IF sep THEN p + 3 ELSE p + 2, 2, 0)
    IN  IF ~year.ok THEN bad
        ELSE IF At(s, p) = "W"
          THEN (IF ~week.ok THEN bad
                ELSE IF p + 3 < n
                  THEN (IF sep /\ At(s, p + 3) # "-" THEN bad
                        ELSE IF ~wday.ok THEN bad
                        ELSE IsoToYmd(year.val, week.val, wday.val))
                  ELSE IsoToYmd(year.val, week.val, 1))
        ELSE IF ~month.ok THEN bad
        ELSE IF sep /\ At(s, p + 2) # "-" THEN bad
        ELSE IF ~mday.ok THEN bad
        ELSE [ok |-> TRUE, val |-> <<year.val, month.val, mday.val>>]

\* the factor that makes microseconds of 1..6 digits of a fraction
Correction == <<100000, 10000, 1000, 100, 10, 1>>

\* the fraction of a second read from index p on in a part that ends at
\* index end: at most 6 digits count, further digits are skipped; rv is 1
\* when the text goes on behind them
HhFraction(s, p, end, comps) ==
    LET to_parse == IF end - p >= 6 THEN 6 ELSE end - p
        us       == ParseDigits(s, p, to_parse, 0)
        rest     == SkipDigits(s, p + to_parse)
    IN  IF ~us.ok THEN [rv |-> -3, comps |-> comps]
        ELSE [rv    |-> IF At(s, rest) = "NUL" THEN 0 ELSE 1,
              comps |-> [comps EXCEPT ![4] = us.val * Correction[to_parse]]]

\* HH[:MM[:SS]] or HH[MM[SS]] and a fraction, read from index p on in a
\* part that ends at index end; i is the number of components read so far.
\* rv is negative for a part that cannot be read, 1 when a character other
\* than "NUL" follows the part, and 0 otherwise.  What follows a third
\* component is read as a fraction, whatever the character before it.
RECURSIVE HhStep(_, _, _, _, _, _)
HhStep(s, p, end, i, has_separator, comps) ==
    IF i = 3 THEN HhFraction(s, p, end, comps)
    ELSE LET v    == ParseDigits(s, p, 2, 0)
             c    == At(s, p + 2)
             q    == p + 3
             hs   == IF i = 0 THEN c = ":" ELSE has_separator
             done == [comps EXCEPT ![i + 1] = v.val]
         IN  IF ~v.ok THEN [rv |-> -3, comps |-> comps]
             \* a character of several bytes never ends the part
             ELSE IF c \in NonAscii THEN [rv |-> -3, comps |-> comps]
             ELSE IF q >= end THEN [rv |-> IF c = "NUL" THEN 0 ELSE 1, comps |-> done]
             ELSE IF hs /\ c = ":" THEN HhStep(s, q, end, i + 1, hs, done)
             ELSE IF c \in {".", ","} THEN HhFraction(s, q, end, done)
             ELSE IF ~hs THEN HhStep(s, q - 1, end, i + 1, hs, done)
             ELSE [rv |-> -4, comps |-> comps]

ParseHhMmSsFf(s, start, end) == HhStep(s, start, end, 0, TRUE, <<0, 0, 0, 0>>)

\* the index of the first "Z", "+" or "-" from index p on, or of the end
RECURSIVE TzPos(_, _)
TzPos(s, p) ==
    IF At(s, p) \in {"Z", "+", "-"} THEN p
    ELSE IF p + 1 < Len(s) THEN TzPos(s, p + 1)
    ELSE p + 1

\* the result of a time that cannot be read
BadTime ==
    [ok |-> FALSE, comps |-> <<0, 0, 0, 0>>, aware |-> FALSE,
     tzoffset |-> 0, tzmicrosecond |-> 0]

\* the result of a time without UTC offset
NaiveTime(comps) ==
    [ok |-> TRUE, comps |-> comps, aware |-> FALSE,
     tzoffset |-> 0, tzmicrosecond |-> 0]

\* the result of a time with the UTC offset read as z
AwareTime(comps, sign, z) ==
    IF z.rv # 0 THEN BadTime
    ELSE [ok |-> TRUE, comps |-> comps, aware |-> TRUE,
          tzoffset |-> sign * (z.comps[1] * 3600 + z.comps[2] * 60 + z.comps[3]),
          tzmicrosecond |-> sign * z.comps[4]]

\* the time read as t in front of index tzp, and the UTC offset behind it.
\* What the time part leaves unread in front of an offset is ignored.
TimeAndOffset(s, tzp, t) ==
    IF t.rv < 0 THEN BadTime
    ELSE IF tzp = Len(s)
      THEN (IF t.rv = 1 THEN BadTime ELSE NaiveTime(t.comps))
    ELSE IF At(s, tzp) = "Z"
      THEN (IF At(s, tzp + 1) # "NUL" THEN BadTime
            ELSE AwareTime(t.comps, 1, [rv |-> 0, comps |-> <<0, 0, 0, 0>>]))
    ELSE AwareTime(t.comps, IF At(s, tzp) = "-" THEN -1 ELSE 1,
                   ParseHhMmSsFf(s, tzp + 1, Len(s)))

\* the time from index start on, its end at the first "Z", "+" or "-"
TimeUpTo(s, start, tzp) == TimeAndOffset(s, tzp, ParseHhMmSsFf(s, start, tzp))

\* the time and the UTC offset read from index start on
ParseIsoformatTime(s, start) == TimeUpTo(s, start, TzPos(s, start))

\* timedelta(seconds=secs, microseconds=us) as <<days, seconds, microseconds>>
DeltaOf(s2, us) == <<s2 \div 86400, s2 % 86400, us % 1000000>>

Delta(secs, us) == DeltaOf(secs + (us \div 1000000), us)

\* the tzinfo of a time read: an offset of 0 seconds is UTC whatever its
\* microseconds
TzInfo(t) ==
    IF ~t.aware THEN None
    ELSE IF t.tzoffset = 0 THEN Some(<<0, 0, 0>>)
    ELSE Some(Delta(t.tzoffset, t.tzmicrosecond))

\* the fields of a date read as d and a time read as t
Fields(d, t) ==
    IF ~d.ok \/ ~t.ok THEN [ok |-> FALSE, val |-> None]
    ELSE [ok  |-> TRUE,
          val |-> [year |-> d.val[1], month |-> d.val[2], day |-> d.val[3],
                   hour |-> t.comps[1], minute |-> t.comps[2],
                   second |-> t.comps[3], microsecond |-> t.comps[4],
                   tzinfo |-> TzInfo(t)]]

\* the fields of a text whose date ends at index sep; a text that ends with
\* its date is midnight without offset
FieldsAt(s, sep) ==
    IF sep < 0 THEN [ok |-> FALSE, val |-> None]
    ELSE Fields(ParseIsoformatDate(s, sep),
                IF Len(s) > sep THEN ParseIsoformatTime(s, sep + 1)
                ELSE NaiveTime(<<0, 0, 0, 0>>))

\* the fields read from the text, before the datetime is made of them
IsoFields(date) ==
    IF date = None THEN [ok |-> FALSE, val |-> None]
    ELSE IF Len(date[1]) < 7 THEN [ok |-> FALSE, val |-> None]
    ELSE FieldsAt(date[1], FindSeparator(date[1]))

\* timezone(offset) takes an offset strictly between -24 and +24 hours
TzInRange(tz) ==
    tz = None
    \/ (tz[1][1] \in {-1, 0} /\ ~(tz[1][1] = -1 /\ tz[1][2] = 0 /\ tz[1][3] = 0))

\* datetime(...) takes these fields but for the day
TimeInRange(f) ==
    /\ f.ok /\ TzInRange(f.val.tzinfo)
    /\ f.val.year \in 1..9999 /\ f.val.month \in 1..12
    /\ f.val.hour <= 23 /\ f.val.minute <= 59 /\ f.val.second <= 59

\* the fields when day is a day of the month, a failure otherwise
IfDay(f, day) == IF TimeInRange(f) /\ day THEN f ELSE [ok |-> FALSE, val |-> None]

DayOfMonth(f) == f.ok /\ f.val.day \in 1..DaysIn(f.val.year, f.val.month)

DayOfAnyMonth(f) == f.ok /\ f.val.day \in 1..31

Checked(f) == IfDay(f, DayOfMonth(f))

CheckedAnyDay(f) == IfDay(f, DayOfAnyMonth(f))

\* mutant of FromIsoFormat: every day 1..31 taken in every month
FromIsoFormat_AnyDay(date) == CheckedAnyDay(IsoFields(date))

\* datetime.fromisoformat(date): ok is FALSE when it raises (TypeError for
\* None, ValueError for a text it cannot read or a date, time or offset out
\* of range); val is the datetime, tzinfo None or Some(UTC offset)
FromIsoFormat(date) == Checked(IsoFields(date))

\* the dict parse_event returns when the date parses
ParsedEvent(doc) ==
    [name     |-> doc.name,
     date_str |-> doc.date,
     date_obj |-> FromIsoFormat(doc.date).val,
     records  |-> [i \in 1..Len(doc.results) |-> ParseRecord(doc.results[i])]]

\* the instant of a datetime as <<days, seconds, microseconds>>, its UTC
\* offset taken off when it has one
SortKey(d) ==
    LET off  == IF d.tzinfo = None THEN <<0, 0, 0>> ELSE d.tzinfo[1]
        secs == d.hour * 3600 + d.minute * 60 + d.second
                - (off[1] * 86400 + off[2])
        us   == d.microsecond - off[3]
        s2   == secs + (us \div 1000000)
    IN  <<YmdToOrd(d.year, d.month, d.day) + (s2 \div 86400), s2 % 86400,
          us % 1000000>>

\* a datetime with a UTC offset and one without cannot be compared
Comparable(a, b) == (a.tzinfo = None) <=> (b.tzinfo = None)

\* date_obj a < date_obj b
DateBefore(a, b) ==
    LET x == SortKey(a)
        y == SortKey(b)
    IN  \/ x[1] < y[1]
        \/ x[1] = y[1] /\ x[2] < y[2]
        \/ x[1] = y[1] /\ x[2] = y[2] /\ x[3] < y[3]

(***************************************************************************)
(* build_tables                                                            *)
(***************************************************************************)
\* code points of the characters of the model, ascending
CodeOrder ==
    <<"TAB", " ", "+", ",", "-", ".">> \o Digits \o <<":">> \o UpperLetters
    \o <<"_">> \o LowerLetters \o <<"NBSP">>
    \o <<"C_CARON", "c_caron", "D_CARON", "d_caron", "E_CARON", "e_caron",
        "L_CARON", "l_caron", "N_CARON", "n_caron", "R_CARON", "r_caron",
        "S_CARON", "s_caron", "T_CARON", "t_caron", "Z_CARON", "z_caron",
        "A_CARON", "a_caron", "I_CARON", "i_caron", "O_CARON", "o_caron",
        "U_CARON", "u_caron", "G_CARON", "g_caron", "K_CARON", "k_caron",
        "j_caron", "H_CARON", "h_caron">>
    \o <<"CARON", "ENDASH", "EMDASH">>

Ord(c) == CHOOSE i \in 1..Len(CodeOrder) : CodeOrder[i] = c

\* a < b for two str values
RECURSIVE TextLess(_, _)
TextLess(a, b) ==
    IF b = <<>> THEN FALSE
    ELSE IF a = <<>> THEN TRUE
    ELSE IF Head(a) = Head(b) THEN TextLess(Tail(a), Tail(b))
    ELSE Ord(Head(a)) < Ord(Head(b))

\* sorted(S) for a set S of str values
RECURSIVE SortedTexts(_)
SortedTexts(S) ==
    IF S = {} THEN <<>>
    ELSE LET least == CHOOSE x \in S : \A y \in S \ {x} : TextLess(x, y)
         IN  <<least>> \o SortedTexts(S \ {least})

\* sorted({r["class_name"] for e in events for r in e["records"]})
Categories(evs) ==
    SortedTexts(UNION { { evs[i].records[j].class_name :
                            j \in 1..Len(evs[i].records) } : i \in 1..Len(evs) })

\* the display text build_tables decides for one record
Display(r) ==
    LET status_display == map_status(r.status_raw)
    IN  IF status_display # None THEN status_display[1]
        ELSE IF r.position = None THEN <<>>
        ELSE IF r.points > 0 THEN Str(r.points)
        ELSE <<"0">>

\* cells_by_comp and totals_by_comp before the first record of a category.
\* keys is the insertion order of cells_by_comp; totals reads as 0 for a key
\* totals_by_comp does not hold, as the defaultdict(int) does.
EmptyAcc == [keys |-> <<>>, cells |-> <<>>, totals |-> <<>>]

\* mutant of AddRecord: totals_by_comp[key] = int(display), not +=
AddRecord_Assign(a, idx, n, r) ==
    LET key == r.person_key
        display == Display(r)
        known == {a.keys[i] : i \in 1..Len(a.keys)}
        old == IF key \in known THEN a.cells[key] ELSE [i \in 1..n |-> <<>>]
    IN  [keys   |-> IF key \in known THEN a.keys ELSE Append(a.keys, key),
         cells  |-> [k \in known \cup {key} |->
                       IF k = key THEN [old EXCEPT ![idx] = display] ELSE a.cells[k]],
         totals |-> [k \in known \cup {key} |->
                       IF k = key /\ IsDigit(display) THEN IntOf(display)
                       ELSE IF k \in known THEN a.totals[k] ELSE 0]]

\* one pass of the inner loop body: cells_by_comp[key][idx] = display and,
\* for a digit string, totals_by_comp[key] += int(display)
AddRecord(a, idx, n, r) ==
    LET key == r.person_key
        display == Display(r)
        known == {a.keys[i] : i \in 1..Len(a.keys)}
        old == IF key \in known THEN a.cells[key] ELSE [i \in 1..n |-> <<>>]
        gain == IF IsDigit(display) THEN IntOf(display) ELSE 0
    IN  [keys   |-> IF key \in known THEN a.keys ELSE Append(a.keys, key),
         cells  |-> [k \in known \cup {key} |->
                       IF k = key THEN [old EXCEPT ![idx] = display] ELSE a.cells[k]],
         totals |-> [k \in known \cup {key} |->
                       (IF k \in known THEN a.totals[k] ELSE 0)
                       + (IF k = key THEN gain ELSE 0)]]

\* mutant of ScanRecords: the records of every class, the filter left out
RECURSIVE ScanRecords_AnyClass(_, _, _, _, _)
ScanRecords_AnyClass(a, idx, n, recs, cat) ==
    IF recs = <<>> THEN a
    ELSE ScanRecords_AnyClass(AddRecord(a, idx, n, Head(recs)), idx, n, Tail(recs), cat)

\* for rec in (r for r in ev["records"] if r["class_name"] == cat)
RECURSIVE ScanRecords(_, _, _, _, _)
ScanRecords(a, idx, n, recs, cat) ==
    IF recs = <<>> THEN a
    ELSE ScanRecords(IF Head(recs).class_name = cat
                       THEN AddRecord(a, idx, n, Head(recs))
                       ELSE a,
                     idx, n, Tail(recs), cat)

\* for idx, ev in enumerate(events), from event idx on
RECURSIVE ScanEvents(_, _, _, _)
ScanEvents(a, idx, evs, cat) ==
    IF idx > Len(evs) THEN a
    ELSE ScanEvents(ScanRecords(a, idx, Len(evs), evs[idx].records, cat),
                    idx + 1, evs, cat)

\* cells_by_comp and totals_by_comp of one category after the loops
Accumulate(evs, cat) == ScanEvents(EmptyAcc, 1, evs, cat)

\* rows before the sort: [given, family, pid, *cells, total] per key
RowsOf(a) ==
    [i \in 1..Len(a.keys) |->
        a.keys[i] \o a.cells[a.keys[i]] \o <<a.totals[a.keys[i]]>>]

\* mutant of InsertRow: key = total, the rows sorted ascending
RECURSIVE InsertRow_Ascending(_, _)
InsertRow_Ascending(sorted, row) ==
    IF sorted = <<>> THEN <<row>>
    ELSE IF row[Len(row)] < Head(sorted)[Len(Head(sorted))]
      THEN <<row>> \o sorted
      ELSE <<Head(sorted)>> \o InsertRow_Ascending(Tail(sorted), row)

\* mutant of InsertRow: a sort that is not stable, a row goes before its equals
RECURSIVE InsertRow_TiesFirst(_, _)
InsertRow_TiesFirst(sorted, row) ==
    IF sorted = <<>> THEN <<row>>
    ELSE IF 0 - row[Len(row)] <= 0 - Head(sorted)[Len(Head(sorted))]
      THEN <<row>> \o sorted
      ELSE <<Head(sorted)>> \o InsertRow_TiesFirst(Tail(sorted), row)

\* the place list.sort gives one more row: behind every row whose key is
\* not greater (the sort is stable), key = -total
RECURSIVE InsertRow(_, _)
InsertRow(sorted, row) ==
    IF sorted = <<>> THEN <<row>>
    ELSE IF 0 - row[Len(row)] < 0 - Head(sorted)[Len(Head(sorted))]
      THEN <<row>> \o sorted
      ELSE <<Head(sorted)>> \o InsertRow(Tail(sorted), row)

\* rows.sort(key=lambda x: -x[-1])
RECURSIVE SortRows(_)
SortRows(rows) ==
    IF rows = <<>> THEN <<>>
    ELSE InsertRow(SortRows(SubSeq(rows, 1, Len(rows) - 1)), rows[Len(rows)])

\* rows = [[rk + 1] + row for rk, row in enumerate(rows)]
AddPos(rows) == [i \in 1..Len(rows) |-> <<i>> \o rows[i]]

\* A row of a DataFrame is [kind, vals]: vals are its cells, kind names the
\* statement that made it (title_row, the header frame, rows, sep_3blank).
Blanks(n) == [i \in 1..n |-> ""]

\* df_cat of one category: title row, three header rows, data rows
CategoryFrame(evs, cat) ==
    LET n == Len(evs)
        ncols == 4 + n + 1
        rows == AddPos(SortRows(RowsOf(Accumulate(evs, cat))))
        hdr_order == Blanks(4) \o [i \in 1..n |-> Str(i) \o <<".", " ", "k","o","l","o">>]
                     \o <<"">>
        hdr_dates == Blanks(4) \o [i \in 1..n |-> evs[i].date_str] \o <<"">>
        hdr_names == <<"Poradie", "Meno", "Priezvisko", "SZOS ID">>
                     \o [i \in 1..n |-> evs[i].name] \o <<"Body spolu">>
        title_row == Blanks(4) \o <<cat>> \o Blanks(ncols - 5)
    IN  <<[kind |-> "title", vals |-> title_row],
          [kind |-> "header", vals |-> hdr_order],
          [kind |-> "header", vals |-> hdr_dates],
          [kind |-> "header", vals |-> hdr_names]>>
        \o [i \in 1..Len(rows) |-> [kind |-> "data", vals |-> rows[i]]]

\* sep_3blank
Sep3Blank(n) == [i \in 1..3 |-> [kind |-> "blank", vals |-> Blanks(4 + n + 1)]]

\* big_chunks after the loop over categories, one frame per element
RECURSIVE BigChunks(_, _)
BigChunks(evs, cats) ==
    IF cats = <<>> THEN <<>>
    ELSE <<CategoryFrame(evs, Head(cats)), Sep3Blank(Len(evs))>>
         \o BigChunks(evs, Tail(cats))

\* pd.concat(frames, ignore_index=True) of a non-empty list of frames
RECURSIVE Concat(_)
Concat(frames) ==
    IF frames = <<>> THEN <<>> ELSE Head(frames) \o Concat(Tail(frames))

(***************************************************************************)
(* __main__ and the steps of a run                                         *)
(***************************************************************************)
\* the place list.sort gives one more event: behind every event whose
\* date_obj is not later (the sort is stable)
RECURSIVE InsertEvent(_, _)
InsertEvent(sorted, ev) ==
    IF sorted = <<>> THEN <<ev>>
    ELSE IF DateBefore(ev.date_obj, Head(sorted).date_obj)
      THEN <<ev>> \o sorted
      ELSE <<Head(sorted)>> \o InsertEvent(Tail(sorted), ev)

\* events.sort(key=lambda e: e["date_obj"])
RECURSIVE SortByDate(_)
SortByDate(evs) ==
    IF evs = <<>> THEN <<>>
    ELSE InsertEvent(SortByDate(SubSeq(evs, 1, Len(evs) - 1)), evs[Len(evs)])

\* xml_files = sorted(glob.glob(...)); raise SystemExit when there is none
Discover ==
    /\ pc = "start"
    /\ xml_files' = [i \in 1..Len(dir) |-> i]
    /\ pc' = IF Len(dir) = 0 THEN "failed" ELSE "parse"
    /\ UNCHANGED <<raw, name1, name2, dir, events, acc, final_df, written>>

\* parse_event(p) for the next path of the list comprehension; an exception
\* of datetime.fromisoformat ends the run
ParseEvent ==
    /\ pc = "parse"
    /\ Len(events) < Len(xml_files)
    /\ LET doc == dir[xml_files[Len(events) + 1]]
       IN  IF FromIsoFormat(doc.date).ok
             THEN /\ events' = Append(events, ParsedEvent(doc))
                  /\ pc' = "parse"
             ELSE /\ events' = events
                  /\ pc' = "failed"
    /\ UNCHANGED <<raw, name1, name2, dir, xml_files, acc, final_df, written>>

\* events.sort(...) once every path is parsed; the comparison of a
\* date_obj that has a UTC offset with one that has none raises TypeError
\* and ends the run (the list is then lost with the process)
SortEvents ==
    /\ pc = "parse"
    /\ Len(events) = Len(xml_files)
    /\ IF \A i \in 1..Len(events), j \in 1..Len(events) :
              Comparable(events[i].date_obj, events[j].date_obj)
         THEN /\ events' = SortByDate(events)
              /\ pc' = "build"
         ELSE /\ events' = events
              /\ pc' = "failed"
    /\ UNCHANGED <<raw, name1, name2, dir, xml_files, acc, final_df, written>>

\* build_tables(events): pd.concat of an empty big_chunks[:-1] raises
\* ValueError before to_csv is reached
BuildTables ==
    /\ pc = "build"
    /\ LET cats == Categories(events)
           big_chunks == BigChunks(events, cats)
       IN  /\ acc' = [c \in 1..Len(cats) |->
                        [cat |-> cats[c], by_comp |-> Accumulate(events, cats[c])]]
           /\ IF cats = <<>>
                THEN /\ pc' = "failed"
                     /\ UNCHANGED <<final_df, written>>
                ELSE /\ final_df' = Concat(SubSeq(big_chunks, 1, Len(big_chunks) - 1))
                     /\ written' = TRUE
                     /\ pc' = "done"
    /\ UNCHANGED <<raw, name1, name2, dir, xml_files, events>>

Next == Discover \/ ParseEvent \/ SortEvents \/ BuildTables

(***************************************************************************)
(* Specification SpecTables: build_tables called with a date-sorted list   *)
(* of one or more parsed events.                                           *)
(***************************************************************************)
Ann == <<"Ann", "Lee", "7">>

Bob == <<"Bob", "Ray", "">>

\* records parse_event can return: first place with status OK, and a
\* DidNotFinish without position, for two persons in two classes
RecordPool ==
    { [class_name |-> c, person_key |-> k, position |-> o.position,
       points |-> o.points, status_raw |-> o.status_raw] :
        c \in { <<"A">>, <<"B">> },
        k \in { Ann, Bob },
        o \in { [position |-> Some(1), points |-> PointsGet(1),
                 status_raw |-> <<"O","K">>],
                [position |-> None, points |-> 0,
                 status_raw |-> <<"D","i","d","N","o","t","F","i","n","i","s","h">>] } }

\* g gives every element of a flat list the number of the list it goes to
Monotone(g) == \A i \in DOMAIN g, j \in DOMAIN g : i <= j => g[i] <= g[j]

\* the elements of the flat list f that g gives to list i, in their order
Part(f, g, i) ==
    SubSeq(f, 1 + Cardinality({ j \in DOMAIN g : g[j] < i }),
              Cardinality({ j \in DOMAIN g : g[j] <= i }))

\* the text of the date of the i-th event of a season, 2024-0i-01
DateText(i) == <<"2","0","2","4","-","0",Digits[i + 1],"-","0","1">>

EventOf(i, recs) ==
    [name |-> <<"E", Digits[i + 1]>>,
     date_str |-> Some(DateText(i)),
     date_obj |-> FromIsoFormat(Some(DateText(i))).val,
     records |-> recs]

\* every list of 1..MaxEvents events that hold at most MaxRecords records
InitTables ==
    /\ pc = "build"
    /\ \E e \in 1..MaxEvents, n \in 0..MaxRecords :
         \E g \in { h \in [1..n -> 1..e] : Monotone(h) }, f \in [1..n -> RecordPool] :
             events = [i \in 1..e |-> EventOf(i, Part(f, g, i))]
    /\ raw = <<>> /\ name1 = <<>> /\ name2 = <<>>
    /\ dir = <<>> /\ xml_files = <<>>
    /\ acc = <<>> /\ final_df = <<>> /\ written = FALSE

NextTables == BuildTables

SpecTables == InitTables /\ [][NextTables]_vars

(***************************************************************************)
(* Specification Spec: a run of __main__ over a directory of documents.    *)
(***************************************************************************)
ClassA1 == <<"A", " ", "-", " ", "M", "u", "z", "i">>

ClassA2 == <<"a", "ENDASH", "m", "u", "z_caron", "i">>

ClassB == <<"B">>

\* PersonResult elements: Ann first and Ann second in one class under two
\* spellings of its name
RawPool ==
    { [class_raw |-> ClassA1, person_key |-> Ann,
       pos_text |-> <<"1">>, status_raw |-> <<"O","K">>],
      [class_raw |-> ClassA2, person_key |-> Ann,
       pos_text |-> <<"2">>, status_raw |-> <<>>] }

DateApr30 == <<"2","0","2","4","-","0","4","-","3","0">>

DateMay01 == <<"2","0","2","4","-","0","5","-","0","1">>

\* the day of DateMay01 without dashes
DateMay01Basic == <<"2","0","2","4","0","5","0","1">>

\* 23:00 UTC of April 30th, written with the offset of a zone two hours ahead
DateMay01Plus2 ==
    <<"2","0","2","4","-","0","5","-","0","1","T","0","1",":","0","0",
      "+","0","2",":","0","0">>

\* 23:30 UTC of April 30th
DateApr30Utc ==
    <<"2","0","2","4","-","0","4","-","3","0","T","2","3",":","3","0","Z">>

DateFeb30 == <<"2","0","2","4","-","0","2","-","3","0">>

\* dates datetime.fromisoformat accepts
GoodDates ==
    { Some(DateApr30), Some(DateMay01), Some(DateMay01Basic),
      Some(DateMay01Plus2), Some(DateApr30Utc) }

\* a day February does not have, and a document without a Date element
BadDates == { Some(DateFeb30), None }

\* every directory of 0..MaxEvents documents that hold at most MaxRecords
\* PersonResult elements, with every choice of dates
Init ==
    /\ pc = "start"
    /\ \E e \in 0..MaxEvents, n \in 0..MaxRecords :
         \E g \in { h \in [1..n -> 1..e] : Monotone(h) }, f \in [1..n -> RawPool],
            d \in [1..e -> GoodDates \cup BadDates] :
                dir = [i \in 1..e |-> [name |-> <<"E", Digits[i + 1]>>,
                                       date |-> d[i],
                                       results |-> Part(f, g, i)]]
    /\ raw = <<>> /\ name1 = <<>> /\ name2 = <<>>
    /\ xml_files = <<>> /\ events = <<>>
    /\ acc = <<>> /\ final_df = <<>> /\ written = FALSE

Spec == Init /\ [][Next]_vars

(***************************************************************************)
(* Specification SpecRecord: a run over one document that holds one        *)
(* PersonResult, for every position text and status of the model.          *)
(***************************************************************************)
PosChars == { "0", "1", "2", "-", "+", " ", "x", "_" }

PosTexts == UNION { [1..n -> PosChars] : n \in 0..MaxPosLen }

StatusPool ==
    { <<>>,
      <<"O","K">>,
      <<"o","k">>,
      <<" ","O","K">>,
      <<"D","i","d","N","o","t","S","t","a","r","t">>,
      <<"D","I","D","N","O","T","S","T","A","R","T">>,
      <<"D","i","d","N","o","t","F","i","n","i","s","h">>,
      <<"d","i","d","n","o","t","f","i","n","i","s","h">>,
      <<"D","i","s","q","u","a","l","i","f","i","e","d">>,
      <<"M","i","s","s","i","n","g","P","u","n","c","h">> }

InitRecord ==
    /\ pc = "start"
    /\ \E t \in PosTexts, st \in StatusPool :
         dir = << [name |-> <<"E", "1">>,
                   date |-> Some(DateMay01),
                   results |-> << [class_raw |-> ClassB, person_key |-> Ann,
                                   pos_text |-> t, status_raw |-> st] >>] >>
    /\ raw = <<>> /\ name1 = <<>> /\ name2 = <<>>
    /\ xml_files = <<>> /\ events = <<>>
    /\ acc = <<>> /\ final_df = <<>> /\ written = FALSE

NextRecord == Discover \/ ParseEvent \/ SortEvents \/ BuildTables

SpecRecord == InitRecord /\ [][NextRecord]_vars

(***************************************************************************)
(* Specification SpecNorm: normalize_class_name applied to a label and     *)
(* then to its own result.                                                 *)
(***************************************************************************)
Pieces ==
    { <<"a">>, <<"b">>, <<"A">>, <<" ">>, <<"-">>, <<"ENDASH">>, <<"EMDASH">>,
      <<"NBSP">>, <<"z_caron">>, <<"CARON">>, <<"j">>,
      <<"m","u","z","i">>, <<"Z","e","n","y">> }

RECURSIVE LabelsOf(_)
LabelsOf(n) ==
    IF n = 0 THEN { <<>> }
    ELSE LET shorter == LabelsOf(n - 1)
         IN  shorter \cup { l \o p : l \in shorter, p \in Pieces }

Labels == LabelsOf(MaxPieces)

InitNorm ==
    /\ pc = "raw"
    /\ raw \in Labels
    /\ name1 = <<>> /\ name2 = <<>>
    /\ dir = <<>> /\ xml_files = <<>> /\ events = <<>>
    /\ acc = <<>> /\ final_df = <<>> /\ written = FALSE

Normalize ==
    /\ pc = "raw"
    /\ name1' = normalize_class_name(raw)
    /\ pc' = "normalized"
    /\ UNCHANGED <<raw, name2, dir, xml_files, events, acc, final_df, written>>

Renormalize ==
    /\ pc = "normalized"
    /\ name2' = normalize_class_name(name1)
    /\ pc' = "renormalized"
    /\ UNCHANGED <<raw, name1, dir, xml_files, events, acc, final_df, written>>

NextNorm == Normalize \/ Renormalize

SpecNorm == InitNorm /\ [][NextNorm]_vars

(***************************************************************************)
(* What the properties speak of                                            *)
(***************************************************************************)
\* the competitor keys with a record of class cat in event idx
KeysIn(evs, idx, cat) ==
    { evs[idx].records[j].person_key :
        j \in { j \in 1..Len(evs[idx].records) : evs[idx].records[j].class_name = cat } }

\* the competitor keys with a record of class cat in some event
CatKeys(evs, cat) == UNION { KeysIn(evs, i, cat) : i \in 1..Len(evs) }

\* the sum of the digit-only cells of one competitor
RECURSIVE SumCells(_)
SumCells(cells) ==
    IF cells = <<>> THEN 0
    ELSE (IF IsDigit(Head(cells)) THEN IntOf(Head(cells)) ELSE 0) + SumCells(Tail(cells))

\* the run of data rows of a frame that starts at row i
RECURSIVE TakeData(_, _)
TakeData(df, i) ==
    IF i <= Len(df) /\ df[i].kind = "data"
      THEN <<df[i].vals>> \o TakeData(df, i + 1)
      ELSE <<>>

TitleRows(df) == { t \in 1..Len(df) : df[t].kind = "title" }

\* the data rows of the section whose title is row t
SectionData(df, t) == TakeData(df, t + 4)

RowTotal(row) == row[Len(row)]

RowKey(row) == SubSeq(row, 2, 4)

\* the places (event, record) where key has a record of class cat
Seen(evs, cat, key) ==
    UNION { { <<i, j>> : j \in { j \in 1..Len(evs[i].records) :
                                   /\ evs[i].records[j].class_name = cat
                                   /\ evs[i].records[j].person_key = key } } :
            i \in 1..Len(evs) }

PlaceBefore(p, q) == p[1] < q[1] \/ (p[1] = q[1] /\ p[2] < q[2])

FirstSeen(evs, cat, key) ==
    CHOOSE p \in Seen(evs, cat, key) :
        \A q \in Seen(evs, cat, key) \ {p} : PlaceBefore(p, q)

\* the season totals of a list of accumulations, as (category, key, total)
SeasonTotals(accs) ==
    UNION { { <<accs[c].cat, k, accs[c].by_comp.totals[k]>> :
                k \in DOMAIN accs[c].by_comp.totals } : c \in 1..Len(accs) }

\* the season totals of a run that finds the documents of dir in the given order
RunTotals(order) ==
    LET evs == SortByDate([i \in 1..Len(dir) |-> ParsedEvent(dir[order[i]])])
        cats == Categories(evs)
    IN  SeasonTotals([c \in 1..Len(cats) |->
                        [cat |-> cats[c], by_comp |-> Accumulate(evs, cats[c])]])

\* a frame made of one section per category of cats from row i on: title,
\* three header rows, one data row per competitor, and three blank rows
\* between two sections but none after the last
RECURSIVE SectionsFrom(_, _, _, _)
SectionsFrom(df, i, cats, evs) ==
    /\ cats # <<>>
    /\ LET last == i + 3 + Cardinality(CatKeys(evs, Head(cats)))
       IN  /\ last <= Len(df)
           /\ df[i].kind = "title" /\ df[i].vals[5] = Head(cats)
           /\ \A h \in (i + 1)..(i + 3) : df[h].kind = "header"
           /\ \A d \in (i + 4)..last : df[d].kind = "data"
           /\ IF Len(cats) = 1
                THEN last = Len(df)
                ELSE /\ last + 3 <= Len(df)
                     /\ \A b \in (last + 1)..(last + 3) : df[b].kind = "blank"
                     /\ TextLess(Head(cats), cats[2])
                     /\ SectionsFrom(df, last + 4, Tail(cats), evs)

TableShape(df, evs) ==
    /\ SectionsFrom(df, 1, Categories(evs), evs)
    /\ \A r \in 1..Len(df) : Len(df[r].vals) = 4 + Len(evs) + 1

(***************************************************************************)
(* Properties                                                              *)
(***************************************************************************)
\* C1: after the accumulation of a category, the season total of every
\* competitor of the category is the sum of the integer values of that
\* competitor's digit-only cells over all event columns.
C1_TotalIsSumOfCells ==
    \A c \in 1..Len(acc) :
        \A k \in DOMAIN acc[c].by_comp.cells :
            acc[c].by_comp.totals[k] = SumCells(acc[c].by_comp.cells[k])

\* C2: normalize_class_name is idempotent: normalising the result of a
\* normalisation gives that result back, for every label.
C2_Idempotent == pc = "renormalized" => name2 = name1

\* C3: in every category section the data rows are in non-increasing order
\* of total and their rank column reads 1, 2, ..., K, K the number of distinct
\* competitor keys with a record in that category.
C3_RankedByTotal ==
    pc = "done" =>
        \A t \in TitleRows(final_df) :
            LET rows == SectionData(final_df, t)
                K == Cardinality(CatKeys(events, final_df[t].vals[5]))
            IN  /\ Len(rows) = K
                /\ \A j \in 1..Len(rows) : rows[j][1] = j
                /\ \A j \in 1..(Len(rows) - 1) : RowTotal(rows[j]) >= RowTotal(rows[j + 1])

\* a section whose second competitor met has the larger total and the top row
C3_Witness ==
    /\ pc = "done"
    /\ \E c \in 1..Len(acc), t \in TitleRows(final_df) :
         LET a == acc[c].by_comp
             rows == SectionData(final_df, t)
         IN  /\ final_df[t].vals[5] = acc[c].cat
             /\ Len(a.keys) = 2
             /\ a.totals[a.keys[1]] < a.totals[a.keys[2]]
             /\ RowKey(rows[1]) = a.keys[2] /\ rows[1][1] = 1 /\ rows[2][1] = 2

\* C4: a record whose position text parses to an integer p in 1..20 gets
\* 21 - p points, every other record gets 0 points, and no position text
\* makes the parse fail.
C4_ScoringTotal ==
    /\ pc # "failed"
    /\ Len(events) >= 1 =>
         LET text == dir[1].results[1].pos_text
             r == events[1].records[1]
         IN  IF \E p \in 1..20 : IntParse(text).ok /\ IntParse(text).val = p
               THEN r.points = 21 - IntParse(text).val /\ r.position = Some(IntParse(text).val)
               ELSE r.points = 0

\* the record of a 20th place has been parsed and carries one point
C4_Witness ==
    /\ Len(events) >= 1
    /\ events[1].records[1].position = Some(20)
    /\ events[1].records[1].points = 1

\* C5: the cell written for a record is DNS for status didnotstart, DNF for
\* didnotfinish and DISQ for any other non-empty status but ok, compared
\* without case, whatever the position, and the record then adds 0 to the
\* total; for an empty or ok status the cell is "" without position, the
\* points in decimal for a position in 1..20 and "0" for any other position.
C5_DisplayByStatusThenPosition ==
    pc = "done" =>
        LET pr == dir[1].results[1]
            lc == Lower(pr.status_raw)
            parsed == IntParse(pr.pos_text)
            cell == acc[1].by_comp.cells[pr.person_key][1]
            total == acc[1].by_comp.totals[pr.person_key]
            shown == final_df[5].vals[5]
        IN  /\ shown = cell
            /\ CASE lc = <<"d","i","d","n","o","t","s","t","a","r","t">> ->
                      cell = DNS /\ total = 0
                 [] lc = <<"d","i","d","n","o","t","f","i","n","i","s","h">> ->
                      cell = DNF /\ total = 0
                 [] lc \in { <<>>, <<"o","k">> } ->
                      IF ~parsed.ok THEN cell = <<>> /\ total = 0
                      ELSE IF parsed.val \in 1..20
                        THEN cell = Str(21 - parsed.val) /\ total = 21 - parsed.val
                        ELSE cell = <<"0">> /\ total = 0
                 [] OTHER ->
                      cell = DISQ /\ total = 0

\* a record with a first place and the status DIDNOTSTART shows DNS
C5_Witness ==
    /\ pc = "done"
    /\ dir[1].results[1].status_raw = <<"D","I","D","N","O","T","S","T","A","R","T">>
    /\ events[1].records[1].position = Some(1)
    /\ acc[1].by_comp.cells[Ann][1] = DNS

\* C6: the season totals of a run are the same for every order in which
\* the documents are found and parsed before the sort by date.
C6_TotalsIgnoreDiscoveryOrder ==
    pc = "done" =>
        \A order \in Permutations(1..Len(dir)) : RunTotals(order) = SeasonTotals(acc)

\* two events of one date written in two ways, and a competitor with points
\* from both
C6_Witness ==
    /\ pc = "done"
    /\ Len(events) >= 2
    /\ events[1].date_obj = events[2].date_obj
    /\ events[1].date_str # events[2].date_str
    /\ \E c \in 1..Len(acc) :
         \E k \in DOMAIN acc[c].by_comp.cells :
             /\ acc[c].by_comp.cells[k][1] = <<"2","0">>
             /\ acc[c].by_comp.cells[k][2] = <<"1","9">>
             /\ acc[c].by_comp.totals[k] = 39

\* C7: the output is written only in a run that found a document and parsed
\* the date of every document; without documents, or with a document whose
\* date does not parse, the run fails and nothing is written.
C7_WriteNeedsEveryDate ==
    LET unparsable == \E i \in 1..Len(dir) : dir[i].date \in BadDates
    IN  /\ written => Len(dir) >= 1 /\ ~unparsable
        /\ (Len(dir) = 0 \/ unparsable) =>
             /\ ~written /\ final_df = <<>>
             /\ pc \in {"start", "parse", "failed"}

\* a run that parsed its first document and failed on the date of the second
C7_Witness ==
    /\ pc = "failed"
    /\ Len(dir) = 2
    /\ dir[1].date \in GoodDates /\ dir[2].date \in BadDates
    /\ Len(events) = 1
    /\ ~written

\* C8: a competitor without a record of the category in event i keeps
\* cell i at "" and event i adds nothing to that competitor's total.
C8_AbsentKeepsBlank ==
    \A c \in 1..Len(acc) :
        \A k \in DOMAIN acc[c].by_comp.cells :
            \A i \in 1..Len(events) :
                k \notin KeysIn(events, i, acc[c].cat) =>
                    /\ acc[c].by_comp.cells[k][i] = <<>>
                    /\ acc[c].by_comp.totals[k] =
                         Accumulate([events EXCEPT ![i].records = <<>>],
                                    acc[c].cat).totals[k]

\* a competitor of one category whose only record in some event is of
\* another category
C8_Witness ==
    /\ pc = "done"
    /\ \E c \in 1..Len(acc), d \in 1..Len(acc) :
         \E k \in DOMAIN acc[c].by_comp.cells, i \in 1..Len(events) :
             /\ c # d
             /\ k \notin KeysIn(events, i, acc[c].cat)
             /\ k \in KeysIn(events, i, acc[d].cat)
             /\ acc[d].by_comp.cells[k][i] = <<"2","0">>
             /\ acc[c].by_comp.cells[k][i] = <<>>

\* C9: for every date-sorted list of one or more events build_tables
\* produces one table: sections in ascending order of category, each a
\* title row, three header rows and its data rows, every row of 4 + events
\* + 1 columns, three blank rows between two sections, none after the last.
C9_OneTableForEveryEventList ==
    pc # "build" => pc = "done" /\ written /\ TableShape(final_df, events)

\* C10: two competitors of a category with equal totals stand in the order
\* of their first record in that category.
C10_TiesKeepFirstAppearance ==
    pc = "done" =>
        \A t \in TitleRows(final_df) :
            LET rows == SectionData(final_df, t)
                cat == final_df[t].vals[5]
            IN  \A i \in 1..Len(rows), j \in 1..Len(rows) :
                    i < j /\ RowTotal(rows[i]) = RowTotal(rows[j]) =>
                        PlaceBefore(FirstSeen(events, cat, RowKey(rows[i])),
                                    FirstSeen(events, cat, RowKey(rows[j])))

\* a section of two competitors with 20 points each
C10_Witness ==
    /\ pc = "done"
    /\ \E t \in TitleRows(final_df) :
         LET rows == SectionData(final_df, t)
         IN  /\ Len(rows) = 2
             /\ RowTotal(rows[1]) = 20 /\ RowTotal(rows[2]) = 20

\* the table has the shape C9 describes whenever build_tables returns
TableShapeWhenDone == pc = "done" => TableShape(final_df, events)

====
